---- MODULE Spec2Model ----
(***************************************************************************)
(* DukaPOS payment reconciliation pipeline.                                *)
(*                                                                         *)
(* The checkout session is the React component PaymentModal                *)
(* (electron/src/renderer/src/components/PaymentModal.tsx, second          *)
(* definition, lines 599-1136) driven by its parent App (unnamed/part_017) *)
(* and by the events the useWebSocket hook dispatches.                     *)
(*                                                                         *)
(* React keeps three copies of the session that the code reads:            *)
(*   - the state itself (payments, checkoutRequestId, ...), which the      *)
(*     functional updaters setPayments(prev => ...) act on;                *)
(*   - view: the values captured by the last committed render, which the   *)
(*     button handlers (handleAddCashPayment, handleFinalizeSale, ...)     *)
(*     close over;                                                         *)
(*   - sub: the values captured by the handlers the subscription effect    *)
(*     registered last, or NoSub when nothing is subscribed.               *)
(* An update made in a click handler is rendered, and its effects run,     *)
(* before the next event; an update made in a WebSocket handler or after   *)
(* an await is rendered by a later task (Render), and the effects of that  *)
(* render run in a task after it (FlushEffects).                           *)
(*                                                                         *)
(* Amounts are integers counting 1/Scale of a shilling.                    *)
(***************************************************************************)
EXTENDS Integers, Sequences, FiniteSets, TLC

\* ---------------------------------------------------------------- bounds
Scale == 2
MaxPayments == 2
MaxPosts == 1
StartNow == 1000
TickMs == 100
MaxTicks == 2
MaxSockets == 2
MaxTimers == 2
MaxUpdates == 3
MaxUserCalls == 3
MaxShifts == 2
MaxSales == 2
IdleStepMs == 500
MaxIdleSteps == 12
MaxIdleCalls == 2

\* ------------------------------------------------------ input domains
CartTotals == {0, Scale}
C2bAmounts == {-1, 0, 1, Scale}
StkAmounts == {0, Scale}
CashInputs == {1, 2 * Scale}
Codes == {"X", "Y"}
Receipts == {"X"}
ReqIds == {"R1"}
EvReqIds == {"R1", "R2"}

NoReq == "null"
NoCode == "none"
NoKey == "none"
NoSub == [subscribed |-> FALSE]

\* --------------------------------------------------- program constants
COMPLETE_DEBOUNCE_MS == 200

VARIABLES
    \* PaymentModal state (useState / useRef)
    payments,             \* tender lines, in order
    checkoutRequestId,    \* pending STK push request, or NoReq
    lastCompleteTapRef,   \* time of the last accepted Complete Sale tap
    stkFetch,             \* handleMpesaPayment: "idle" or "inflight"
    \* App state
    isPaymentModalOpen,
    totalGross,
    posts,                \* the POST transactions awaiting a response, each a digest of its payment list
    \* React
    view,
    sub,
    \* environment
    now,
    \* history
    reqStatus,            \* what became of each push request
    phase,                \* how the current checkout session ended, if it did
    lastCompleteAt,       \* time of the last onCompleteSale, 0 before the first
    lateEvents,           \* parity of the number of payment events dispatched since the session ended
    \* PaymentModal, first definition (lines 47-552): the status poll
    pollIntervalRef,      \* the request the running setInterval polls, or NoReq
    pollQuery,            \* the request of the onVerifyStatus call awaited, or NoReq
    \* useWebSocket state (useState / useRef)
    isConnected,
    error,
    reconnectAttempts,
    wsRef,                \* the socket wsRef.current holds, or NoSocket
    reconnectTimeoutRef,  \* the timeout reconnectTimeoutRef.current holds, NoTimer, or StaleTimer
    \* useWebSocket environment
    sockets,              \* readyState of each WebSocket object that can still fire an event
    timers,               \* the pending setTimeout(connect, delay) calls
    updates,              \* React's queue of state updates not yet rendered
    \* useWebSocket history
    failures,             \* abnormal close events since the last open event
    disconnected,         \* disconnect() was called and connect() has not been called since
    owed,                 \* a connection attempt failed and nothing has scheduled or made another
    userCalls,            \* calls of connect() / disconnect() made by the component so far
    \* useWebSocket subscriptions
    eventHandlersRef,     \* per event type, the handlers of its Set in insertion order
    allHandlersRef,       \* the subscribe-all handlers in insertion order
    invoked,              \* the handlers ws.onmessage called for the last message, in order
    \* shifts: the ledger service, and App's shift state
    shifts,               \* the service's shift ledgers, by shift id
    sales,                \* the cash of the sales the service recorded, with their shift
    currentShift,         \* App: id of the shift the terminal works in, or NoShift
    isOpenShiftModalOpen,
    isCloseShiftModalOpen,
    shiftView,            \* the App render the click handlers were made by
    fetchReq,             \* GET shifts/current, POST shifts/open, POST shifts/<id>/close and
    openReq,              \* POST transactions: NoRequest, sent, or answered
    closeReq,
    txReq,
    \* useIdleTimeout
    idle,                 \* the hook: its props, useState cells, the timers its refs hold, its last render
    idleClock,            \* Date.now(), in ms since the page was loaded
    idleLog,              \* history: when the callbacks were invoked, when the period last started
    \* App, history
    issued                \* the POST transactions issued since the payment modal was last opened

modalVars == <<payments, checkoutRequestId, lastCompleteTapRef, stkFetch>>
appVars == <<isPaymentModalOpen, totalGross, posts>>
reactVars == <<view, sub>>
histVars == <<reqStatus, phase, lastCompleteAt, lateEvents>>
pollVars == <<pollIntervalRef, pollQuery>>
\* the variables of the other components, which PaymentModal (second definition) leaves alone
wsVars == <<isConnected, error, reconnectAttempts, wsRef, reconnectTimeoutRef,
            sockets, timers, updates, failures, disconnected, owed, userCalls>>
dispatchVars == <<eventHandlersRef, allHandlersRef, invoked>>
transportVars == <<wsVars, dispatchVars>>
shiftVars == <<shifts, sales, currentShift, isOpenShiftModalOpen, isCloseShiftModalOpen,
               shiftView, fetchReq, openReq, closeReq, txReq>>
idleVars == <<idle, idleClock, idleLog>>
saleVars == <<issued>>
sideVars == <<shiftVars, idleVars, saleVars>>
otherVars == <<pollVars, transportVars, sideVars>>
\* the variables of PaymentModal and App, which useWebSocket leaves alone
posVars == <<modalVars, appVars, reactVars, now, histVars, pollVars>>
vars == <<modalVars, appVars, reactVars, now, histVars, otherVars>>

Terminal == {"finalized", "cancelled"}

\* useWebSocket: the options' defaults, and the names of its values
maxReconnectAttempts == 10
reconnectDelay == 1000
MaxBackoffMs == 30000
NoError == "null"
EventTypes == {"mpesa.payment_received", "mpesa.payment_failed"}

\* shifts: the names of the values, and what the cashier can type or tender
NoShift == 0
ShiftIds == 1..MaxShifts
NoLedger == [status |-> "none"]
NoRequest == [phase |-> "none"]
cashierId == 1
\* the value of an <input type="number">: "" or a valid number, as characters
FloatTexts == {<<>>, <<"-", "1">>, <<"5">>}
ActualTexts == {<<>>, <<"-", "1">>, <<"5">>, <<"7">>}
CashTenders == {0, 2}
ShiftSnapshot(cs, pay, op, cl) ==
    [currentShift |-> cs, isPaymentModalOpen |-> pay,
     isOpenShiftModalOpen |-> op, isCloseShiftModalOpen |-> cl]
\* useIdleTimeout: a ref that holds null; a time at which nothing has happened
NoDue == 0 - 1
NotMounted ==
    [mounted |-> FALSE, timeoutMs |-> 0, warningMs |-> 0, inline |-> FALSE, enabled |-> FALSE,
     isWarning |-> FALSE, secondsRemaining |-> 0, isPaused |-> FALSE,
     timeoutRef |-> NoDue, warningTimeoutRef |-> NoDue, countdownRef |-> NoDue,
     lastActivityRef |-> 0, dirty |-> FALSE, didReset |-> FALSE,
     view |-> [enabled |-> FALSE, isPaused |-> FALSE]]
Handlers == {"h1", "h2"}
NoSocket == 0
NoTimer == 0
SocketIds == 1..MaxSockets
TimerIds == 1..MaxTimers
\* reconnectTimeoutRef.current still holds the id of a timeout that has fired
StaleTimer == MaxTimers + 1
NoTimeout == [pending |-> FALSE]

\* ------------------------------------------------------------ helpers
Abs(x) == IF x < 0 THEN 0 - x ELSE x
Min(a, b) == IF a < b THEN a ELSE b
Max(a, b) == IF a < b THEN b ELSE a

RECURSIVE paidAmount(_)
paidAmount(ps) == IF ps = <<>> THEN 0 ELSE ps[1].amount + paidAmount(Tail(ps))

remainingBalance(ps, total) == Max(0, total - paidAmount(ps))

\* isFullyPaid with a tolerance of one shilling instead of 0.01
isFullyPaidWithinOne(ps, total) == remainingBalance(ps, total) <= Scale

isFullyPaid(ps, total) == 100 * remainingBalance(ps, total) <= Scale

\* a tender line; key is the idempotency key of the event that produced it
Line(method, amount, code, source, key) ==
    [method |-> method, amount |-> amount, code |-> code, source |-> source, key |-> key]

HasCode(ps, c) == \E i \in 1..Len(ps) : ps[i].code = c

RemoveAt(ps, i) == [j \in 1..(Len(ps) - 1) |-> IF j < i THEN ps[j] ELSE ps[j + 1]]

\* what the model keeps of a payment list sent to the server
Digest(ps) == [lines |-> Len(ps)]

RemoveOne(q, i) == [j \in 1..(Len(q) - 1) |-> IF j < i THEN q[j] ELSE q[j + 1]]

\* ------------------------------------------------------------- React
Snapshot(o, ps, r, t) == [open |-> o, payments |-> ps, checkoutRequestId |-> r, totalGross |-> t]

\* the subscription effect without its "if (!open) return"
SubscriptionEffectWhenClosed(v) ==
    [subscribed |-> TRUE, payments |-> v.payments,
     checkoutRequestId |-> v.checkoutRequestId, totalGross |-> v.totalGross]

\* the subscription effect: if (!open) return; subscribe three handlers closing over the render's values
SubscriptionEffect(v) ==
    IF ~v.open THEN NoSub
    ELSE [subscribed |-> TRUE, payments |-> v.payments,
          checkoutRequestId |-> v.checkoutRequestId, totalGross |-> v.totalGross]

\* A discrete event (click, key press, store change): React renders the updates
\* made in it, and runs the effects of that render, before the next event.  The
\* updates queued earlier outside discrete events have a lower priority and are
\* skipped by that render, so v is the last render's values with only this
\* event's updates applied.
SyncCommit(v) ==
    /\ view' = v
    /\ sub' = SubscriptionEffect(v)

\* A later task renders every queued update; the effects of the render before
\* it are flushed first, its own effects run in a task after it.
Render ==
    /\ view # Snapshot(isPaymentModalOpen, payments, checkoutRequestId, totalGross)
    /\ sub' = SubscriptionEffect(view)
    /\ view' = Snapshot(isPaymentModalOpen, payments, checkoutRequestId, totalGross)
    /\ UNCHANGED <<modalVars, appVars, now, reqStatus, phase, lastCompleteAt, lateEvents>>
    /\ UNCHANGED otherVars

FlushEffects ==
    /\ sub # SubscriptionEffect(view)
    /\ sub' = SubscriptionEffect(view)
    /\ UNCHANGED <<modalVars, appVars, view, now, reqStatus, phase, lastCompleteAt, lateEvents>>
    /\ UNCHANGED otherVars

\* ---------------------------------------------------------------- Init
Init ==
    /\ payments = <<>>
    /\ checkoutRequestId = NoReq
    /\ lastCompleteTapRef = 0
    /\ stkFetch = "idle"
    /\ isPaymentModalOpen = FALSE
    /\ totalGross = 0
    /\ posts = <<>>
    /\ view = Snapshot(FALSE, <<>>, NoReq, 0)
    /\ sub = NoSub
    /\ now = StartNow
    /\ reqStatus = [r \in ReqIds |-> "none"]
    /\ phase = "none"
    /\ lastCompleteAt = 0
    /\ lateEvents = 0
    /\ pollIntervalRef = NoReq
    /\ pollQuery = NoReq
    /\ isConnected = FALSE
    /\ error = NoError
    /\ reconnectAttempts = 0
    /\ wsRef = NoSocket
    /\ reconnectTimeoutRef = NoTimer
    /\ sockets = [s \in SocketIds |-> "unused"]
    /\ timers = [t \in TimerIds |-> NoTimeout]
    /\ updates = <<>>
    /\ failures = 0
    /\ disconnected = FALSE
    /\ owed = FALSE
    /\ userCalls = 0
    /\ eventHandlersRef = [ty \in EventTypes |-> <<>>]
    /\ allHandlersRef = <<>>
    /\ invoked = <<>>
    /\ shifts = [id \in ShiftIds |-> NoLedger]
    /\ sales = <<>>
    /\ currentShift = NoShift
    /\ isOpenShiftModalOpen = FALSE
    /\ isCloseShiftModalOpen = FALSE
    /\ shiftView = ShiftSnapshot(NoShift, FALSE, FALSE, FALSE)
    /\ fetchReq = NoRequest
    /\ openReq = NoRequest
    /\ closeReq = NoRequest
    /\ txReq = NoRequest
    /\ idle = NotMounted
    /\ idleClock = 0
    /\ idleLog =
          [onWarningAt |-> NoDue, onIdleAt |-> NoDue, warnings |-> 0,
           startAt |-> NoDue, resumedAt |-> NoDue, warned |-> FALSE, idled |-> FALSE, calls |-> 0]
    /\ issued = <<>>

\* time passes; it is observed by withCompleteDebounce only, and only until the
\* debounce window of the last accepted tap has ended
Tick ==
    /\ now < StartNow + MaxTicks * TickMs
    /\ now - lastCompleteTapRef < COMPLETE_DEBOUNCE_MS
    /\ now' = now + TickMs
    /\ UNCHANGED <<modalVars, appVars, reactVars, reqStatus, phase, lastCompleteAt, lateEvents>>
    /\ UNCHANGED otherVars

\* ------------------------------------------------------------ App
\* the cart store changes (addItem, removeItem, ...).  While the checkout is
\* shown the cart screen is covered, but a product lookup of handleSearch /
\* handleBarcodeSearch started before can still resolve and call addItem.
CartChange(t) ==
    /\ t # totalGross
    /\ view.open => t > totalGross
    /\ totalGross' = t
    /\ SyncCommit([view EXCEPT !.totalGross = t])
    /\ UNCHANGED <<modalVars, isPaymentModalOpen, posts, now, reqStatus, phase, lastCompleteAt, lateEvents>>
    /\ UNCHANGED otherVars

\* handleCashPayment / handleMpesaPayment / handleCreditPayment of App
OpenPaymentModal ==
    /\ ~view.open
    /\ isPaymentModalOpen' = TRUE
    /\ phase' = "open"
    /\ SyncCommit([view EXCEPT !.open = TRUE])
    /\ lateEvents' = 0
    /\ UNCHANGED <<modalVars, totalGross, posts, now, reqStatus, lastCompleteAt>>
    /\ UNCHANGED otherVars

\* handleCompleteSale: the POST transactions call number i succeeded:
\* clearCart(); setIsPaymentModalOpen(false)
PostTransactionOk(i) ==
    /\ i \in 1..Len(posts)
    /\ posts' = RemoveOne(posts, i)
    /\ totalGross' = 0
    /\ isPaymentModalOpen' = FALSE
    /\ phase' = IF phase = "open" THEN "closedByParent" ELSE phase
    /\ SyncCommit([view EXCEPT !.totalGross = 0])
    /\ UNCHANGED <<modalVars, now, reqStatus, lastCompleteAt, lateEvents>>
    /\ UNCHANGED otherVars

\* handleCompleteSale: the POST transactions call number i failed (not ok, or threw):
\* toast and return
PostTransactionFailed(i) ==
    /\ i \in 1..Len(posts)
    /\ posts' = RemoveOne(posts, i)
    /\ UNCHANGED <<modalVars, isPaymentModalOpen, totalGross, reactVars, now>>
    /\ UNCHANGED <<reqStatus, phase, lastCompleteAt, lateEvents>>
    /\ UNCHANGED otherVars

\* ------------------------------------------------- PaymentModal, buttons
\* status of the push request r after the session let go of it
Cancelled(r) ==
    IF r \in ReqIds /\ reqStatus[r] = "awaiting"
    THEN [reqStatus EXCEPT ![r] = "cancelled"] ELSE reqStatus

\* a click handler's setPayments(prev => [...prev, line])
AppendPayment(line) ==
    /\ Len(payments) < MaxPayments
    /\ payments' = Append(payments, line)
    /\ SyncCommit([view EXCEPT !.payments = Append(view.payments, line)])

handleAddCashPayment(amount) ==
    /\ view.open
    /\ amount > 0
    /\ LET actualPayment == Min(amount, remainingBalance(view.payments, view.totalGross))
       IN AppendPayment(Line("CASH", actualPayment, NoCode, "cash", NoKey))
    /\ UNCHANGED <<checkoutRequestId, lastCompleteTapRef, stkFetch, appVars, now>>
    /\ UNCHANGED <<reqStatus, phase, lastCompleteAt, lateEvents>>
    /\ UNCHANGED otherVars

\* the "Charge to Account" button, with a customer selected; disabled when nothing remains
AddCreditPayment ==
    /\ view.open
    /\ remainingBalance(view.payments, view.totalGross) > 0
    /\ AppendPayment(Line("CREDIT", remainingBalance(view.payments, view.totalGross),
                          NoCode, "credit", NoKey))
    /\ UNCHANGED <<checkoutRequestId, lastCompleteTapRef, stkFetch, appVars, now>>
    /\ UNCHANGED <<reqStatus, phase, lastCompleteAt, lateEvents>>
    /\ UNCHANGED otherVars

\* the remove button of line i: setPayments(prev => prev.filter((_, idx) => idx !== i))
RemovePayment(i) ==
    /\ view.open
    /\ i \in 1..Len(view.payments)
    /\ payments' = RemoveAt(payments, i)
    /\ SyncCommit([view EXCEPT !.payments = RemoveAt(view.payments, i)])
    /\ UNCHANGED <<checkoutRequestId, lastCompleteTapRef, stkFetch, appVars, now>>
    /\ UNCHANGED <<reqStatus, phase, lastCompleteAt, lateEvents>>
    /\ UNCHANGED otherVars

\* the Send STK button: shown while no request is pending, disabled while one is
\* being sent or when nothing remains
handleMpesaPayment ==
    /\ view.open
    /\ view.checkoutRequestId = NoReq
    /\ remainingBalance(view.payments, view.totalGross) > 0
    /\ stkFetch = "idle"
    /\ stkFetch' = "inflight"
    /\ UNCHANGED <<payments, checkoutRequestId, lastCompleteTapRef, appVars, reactVars, now>>
    /\ UNCHANGED <<reqStatus, phase, lastCompleteAt, lateEvents>>
    /\ UNCHANGED otherVars

\* handleMpesaPayment after the await: the gateway answered with a new CheckoutRequestID
StkPushAccepted(id) ==
    /\ stkFetch = "inflight"
    /\ reqStatus[id] = "none"
    /\ stkFetch' = "idle"
    /\ checkoutRequestId' = id
    /\ reqStatus' = [reqStatus EXCEPT ![id] = "awaiting"]
    /\ UNCHANGED <<payments, lastCompleteTapRef, appVars, reactVars, now, phase, lastCompleteAt, lateEvents>>
    /\ UNCHANGED otherVars

\* handleMpesaPayment after the await: 503, not ok, no CheckoutRequestID, or the fetch threw
StkPushRejected ==
    /\ stkFetch = "inflight"
    /\ stkFetch' = "idle"
    /\ UNCHANGED <<payments, checkoutRequestId, lastCompleteTapRef, appVars, reactVars, now>>
    /\ UNCHANGED <<reqStatus, phase, lastCompleteAt, lateEvents>>
    /\ UNCHANGED otherVars

\* the Cancel button under "Waiting for PIN entry": setCheckoutRequestId(null)
CancelStkRequest ==
    /\ view.open
    /\ view.checkoutRequestId # NoReq
    /\ checkoutRequestId' = NoReq
    /\ reqStatus' = Cancelled(checkoutRequestId)
    /\ SyncCommit([view EXCEPT !.checkoutRequestId = NoReq])
    /\ UNCHANGED <<payments, lastCompleteTapRef, stkFetch, appVars, now, phase, lastCompleteAt, lateEvents>>
    /\ UNCHANGED otherVars

\* resetAndClose: the state the setters and onClose() leave
resetAndClose ==
    /\ payments' = <<>>
    /\ checkoutRequestId' = NoReq
    /\ isPaymentModalOpen' = FALSE
    /\ reqStatus' = Cancelled(checkoutRequestId)
    /\ SyncCommit(Snapshot(FALSE, <<>>, NoReq, view.totalGross))

\* Dialog onOpenChange(false): Escape or a click on the overlay
CancelCheckout ==
    /\ view.open
    /\ resetAndClose
    /\ phase' = "cancelled"
    /\ lateEvents' = 0
    /\ UNCHANGED <<lastCompleteTapRef, stkFetch, totalGross, posts, now, lastCompleteAt>>
    /\ UNCHANGED otherVars

\* withCompleteDebounce comparing against a window of no length
withCompleteDebounceNoWindow == ~(now - lastCompleteTapRef < 0)

\* withCompleteDebounce: does the tap at time now pass?
withCompleteDebounce == ~(now - lastCompleteTapRef < COMPLETE_DEBOUNCE_MS)

\* handleFinalizeSale, called when the session is not fully paid: returns
FinalizeNotPaid ==
    /\ view.open
    /\ ~isFullyPaid(view.payments, view.totalGross)
    /\ UNCHANGED <<modalVars, appVars, reactVars, now, reqStatus, phase, lastCompleteAt, lateEvents>>
    /\ UNCHANGED otherVars

\* handleFinalizeSale, within the debounce window of the last accepted tap: returns
FinalizeDebounced ==
    /\ view.open
    /\ isFullyPaid(view.payments, view.totalGross)
    /\ ~withCompleteDebounce
    /\ UNCHANGED <<modalVars, appVars, reactVars, now, reqStatus, phase, lastCompleteAt, lateEvents>>
    /\ UNCHANGED otherVars

\* the list handleFinalizeSale passes to onCompleteSale
onCompleteSaleArg == view.payments

\* handleFinalizeSale: onCompleteSale("COMPLETED", {payments}), then resetAndClose();
\* handleCompleteSale starts its POST transactions
FinalizeCompleted ==
    /\ view.open
    /\ isFullyPaid(view.payments, view.totalGross)
    /\ withCompleteDebounce
    /\ Len(posts) < MaxPosts
    /\ lastCompleteTapRef' = now
    /\ posts' = Append(posts, Digest(onCompleteSaleArg))
    /\ resetAndClose
    /\ lastCompleteAt' = now
    /\ phase' = "finalized"
    /\ lateEvents' = 0
    /\ UNCHANGED <<stkFetch, totalGross, now>>
    /\ UNCHANGED otherVars

handleFinalizeSale == FinalizeNotPaid \/ FinalizeDebounced \/ FinalizeCompleted

\* ------------------------------------- PaymentModal, WebSocket handlers
\* ws.onmessage dispatches the event to the handlers registered for its type;
\* PaymentModal has at most one per type, the one of its last effect run.

\* handler of mpesa.stk_callback
OnStkCallback(status, id, receipt, amount) ==
    /\ IF sub.subscribed /\ status = "success" /\ sub.checkoutRequestId # NoReq
          /\ id = sub.checkoutRequestId
       THEN /\ Len(payments) < MaxPayments
            /\ payments' = Append(payments,
                    Line("MOBILE",
                         IF amount # 0 THEN amount
                         ELSE remainingBalance(sub.payments, sub.totalGross),
                         receipt, "stk", id))
            /\ checkoutRequestId' = NoReq
            /\ reqStatus' = IF id \in ReqIds /\ reqStatus[id] = "awaiting"
                            THEN [reqStatus EXCEPT ![id] = "matched"] ELSE reqStatus
       ELSE UNCHANGED <<payments, checkoutRequestId, reqStatus>>
    /\ lateEvents' = IF phase \in Terminal THEN 1 - lateEvents ELSE lateEvents
    /\ UNCHANGED <<lastCompleteTapRef, stkFetch, appVars, reactVars, now, phase, lastCompleteAt>>
    /\ UNCHANGED otherVars

\* the test of the mpesa.payment_received handler on the values ps, total it closed over
autoMatch(trans_id, amount, ps, total) ==
    /\ \/ Abs(amount - remainingBalance(ps, total)) < Scale
       \/ (amount > 0 /\ amount <= total)
    /\ ~HasCode(ps, trans_id)

\* handler of mpesa.payment_received (C2B, Buy Goods)
OnPaymentReceived(trans_id, amount) ==
    /\ IF sub.subscribed /\ autoMatch(trans_id, amount, sub.payments, sub.totalGross)
       THEN /\ Len(payments) < MaxPayments
            /\ payments' = Append(payments, Line("MOBILE", amount, trans_id, "c2b", trans_id))
       ELSE UNCHANGED payments
    /\ lateEvents' = IF phase \in Terminal THEN 1 - lateEvents ELSE lateEvents
    /\ UNCHANGED <<checkoutRequestId, lastCompleteTapRef, stkFetch, appVars, reactVars, now>>
    /\ UNCHANGED <<reqStatus, phase, lastCompleteAt>>
    /\ UNCHANGED otherVars

\* handler of mpesa.payment_failed: setIsProcessing(false) and a toast; the
\* request the event is about has failed, whoever listens
OnPaymentFailed(id) ==
    /\ reqStatus' = IF id \in ReqIds /\ reqStatus[id] = "awaiting"
                    THEN [reqStatus EXCEPT ![id] = "failed"] ELSE reqStatus
    /\ lateEvents' = IF phase \in Terminal THEN 1 - lateEvents ELSE lateEvents
    /\ UNCHANGED <<modalVars, appVars, reactVars, now, phase, lastCompleteAt>>
    /\ UNCHANGED otherVars

\* ------------------------------------------------------------- Next
Next ==
    \/ Tick
    \/ Render
    \/ FlushEffects
    \/ \E t \in CartTotals : CartChange(t)
    \/ OpenPaymentModal
    \/ \E i \in 1..MaxPosts : PostTransactionFailed(i)
    \/ \E i \in 1..MaxPosts : PostTransactionOk(i)
    \/ \E a \in CashInputs : handleAddCashPayment(a)
    \/ AddCreditPayment
    \/ \E i \in 1..MaxPayments : RemovePayment(i)
    \/ handleMpesaPayment
    \/ \E id \in ReqIds : StkPushAccepted(id)
    \/ StkPushRejected
    \/ CancelStkRequest
    \/ CancelCheckout
    \/ handleFinalizeSale
    \/ \E st \in {"success", "failed"}, id \in EvReqIds, c \in Receipts, a \in StkAmounts :
           OnStkCallback(st, id, c, a)
    \/ \E c \in Codes, a \in C2bAmounts : OnPaymentReceived(c, a)
    \/ \E id \in EvReqIds : OnPaymentFailed(id)

Spec == Init /\ [][Next]_vars

\* ---------------------------------------- PaymentModal, the status poll
\* The first definition of PaymentModal (PaymentModal.tsx lines 47-552) has the
\* state, the handlers and the subscription effect of the second one, and in
\* addition polls the status of the pending push request every POLL_MS.  The
\* actions above that run no effect are its actions too; those that commit a
\* render are repeated here with the poll effect.

\* the auto-poll effect of a render (mpesaMode is "stk", App passes onVerifyStatus):
\* setInterval(poll, POLL_MS) for its checkoutRequestId, cleared by the cleanup
PollEffect(v) == v.checkoutRequestId

PollCommit(v) ==
    /\ view' = v
    /\ sub' = SubscriptionEffect(v)
    /\ pollIntervalRef' = PollEffect(v)

PollRender ==
    /\ view # Snapshot(isPaymentModalOpen, payments, checkoutRequestId, totalGross)
    /\ sub' = SubscriptionEffect(view)
    /\ pollIntervalRef' = PollEffect(view)
    /\ view' = Snapshot(isPaymentModalOpen, payments, checkoutRequestId, totalGross)
    /\ UNCHANGED <<modalVars, appVars, now, histVars, pollQuery>>
    /\ UNCHANGED <<transportVars, sideVars>>

PollFlushEffects ==
    /\ sub # SubscriptionEffect(view) \/ pollIntervalRef # PollEffect(view)
    /\ sub' = SubscriptionEffect(view)
    /\ pollIntervalRef' = PollEffect(view)
    /\ UNCHANGED <<modalVars, appVars, view, now, histVars, pollQuery>>
    /\ UNCHANGED <<transportVars, sideVars>>

PollCartChange(t) ==
    /\ t # totalGross
    /\ view.open => t > totalGross
    /\ totalGross' = t
    /\ PollCommit([view EXCEPT !.totalGross = t])
    /\ UNCHANGED <<modalVars, isPaymentModalOpen, posts, now, histVars, pollQuery>>
    /\ UNCHANGED <<transportVars, sideVars>>

PollOpenPaymentModal ==
    /\ ~view.open
    /\ isPaymentModalOpen' = TRUE
    /\ phase' = "open"
    /\ lateEvents' = 0
    /\ PollCommit([view EXCEPT !.open = TRUE])
    /\ UNCHANGED <<modalVars, totalGross, posts, now, reqStatus, lastCompleteAt, pollQuery>>
    /\ UNCHANGED <<transportVars, sideVars>>

\* the Cancel button under "Waiting for PIN entry"
PollCancelStkRequest ==
    /\ view.open
    /\ view.checkoutRequestId # NoReq
    /\ checkoutRequestId' = NoReq
    /\ reqStatus' = Cancelled(checkoutRequestId)
    /\ PollCommit([view EXCEPT !.checkoutRequestId = NoReq])
    /\ UNCHANGED <<payments, lastCompleteTapRef, stkFetch, appVars, now, phase,
                   lastCompleteAt, lateEvents, pollQuery>>
    /\ UNCHANGED <<transportVars, sideVars>>

PollResetAndClose ==
    /\ payments' = <<>>
    /\ checkoutRequestId' = NoReq
    /\ isPaymentModalOpen' = FALSE
    /\ reqStatus' = Cancelled(checkoutRequestId)
    /\ PollCommit(Snapshot(FALSE, <<>>, NoReq, view.totalGross))

PollCancelCheckout ==
    /\ view.open
    /\ PollResetAndClose
    /\ phase' = "cancelled"
    /\ lateEvents' = 0
    /\ UNCHANGED <<lastCompleteTapRef, stkFetch, totalGross, posts, now, lastCompleteAt, pollQuery>>
    /\ UNCHANGED <<transportVars, sideVars>>

PollFinalizeCompleted ==
    /\ view.open
    /\ isFullyPaid(view.payments, view.totalGross)
    /\ withCompleteDebounce
    /\ Len(posts) < MaxPosts
    /\ lastCompleteTapRef' = now
    /\ posts' = Append(posts, Digest(onCompleteSaleArg))
    /\ PollResetAndClose
    /\ lastCompleteAt' = now
    /\ phase' = "finalized"
    /\ lateEvents' = 0
    /\ UNCHANGED <<stkFetch, totalGross, now, pollQuery>>
    /\ UNCHANGED <<transportVars, sideVars>>

PollPostTransactionOk(i) ==
    /\ i \in 1..Len(posts)
    /\ posts' = RemoveOne(posts, i)
    /\ totalGross' = 0
    /\ isPaymentModalOpen' = FALSE
    /\ phase' = IF phase = "open" THEN "closedByParent" ELSE phase
    /\ PollCommit([view EXCEPT !.totalGross = 0])
    /\ UNCHANGED <<modalVars, now, reqStatus, lastCompleteAt, lateEvents, pollQuery>>
    /\ UNCHANGED <<transportVars, sideVars>>

\* the interval fires: poll() calls onVerifyStatus(checkoutRequestId), which
\* fetches api/v1/payments/verify/<id>
PollTimerFires ==
    /\ pollIntervalRef # NoReq
    /\ pollQuery = NoReq
    /\ pollQuery' = pollIntervalRef
    /\ UNCHANGED <<modalVars, appVars, reactVars, now, histVars, pollIntervalRef>>
    /\ UNCHANGED <<transportVars, sideVars>>

\* handleVerifyStatus: the answer is not a success, or the fetch threw: toast
PollVerifyPending ==
    /\ pollQuery # NoReq
    /\ pollQuery' = NoReq
    /\ UNCHANGED <<modalVars, appVars, reactVars, now, histVars, pollIntervalRef>>
    /\ UNCHANGED <<transportVars, sideVars>>

\* handleVerifyStatus: success, so handleMpesaVerifySuccess(): print the
\* receipt, clearCart(), setIsPaymentModalOpen(false)
PollVerifySuccess ==
    /\ pollQuery # NoReq
    /\ pollQuery' = NoReq
    /\ totalGross' = 0
    /\ isPaymentModalOpen' = FALSE
    /\ phase' = IF phase = "open" THEN "closedByParent" ELSE phase
    /\ PollCommit([view EXCEPT !.totalGross = 0])
    /\ UNCHANGED <<modalVars, posts, now, reqStatus, lastCompleteAt, lateEvents>>
    /\ UNCHANGED <<transportVars, sideVars>>

PollNext ==
    \/ Tick
    \/ PollRender
    \/ PollFlushEffects
    \/ \E t \in CartTotals : PollCartChange(t)
    \/ PollOpenPaymentModal
    \/ handleMpesaPayment
    \/ \E id \in ReqIds : StkPushAccepted(id)
    \/ StkPushRejected
    \/ PollCancelStkRequest
    \/ PollCancelCheckout
    \/ PollFinalizeCompleted
    \/ \E i \in 1..MaxPosts : PostTransactionFailed(i)
    \/ \E i \in 1..MaxPosts : PollPostTransactionOk(i)
    \/ \E st \in {"success", "failed"}, id \in EvReqIds, c \in Receipts, a \in StkAmounts :
           OnStkCallback(st, id, c, a)
    \/ \E id \in EvReqIds : OnPaymentFailed(id)
    \/ PollTimerFires
    \/ PollVerifyPending
    \/ PollVerifySuccess

SpecPoll == Init /\ [][PollNext]_vars

\* ------------------------------------------------------------ useWebSocket
\* The hook's handlers read and write refs only; its three useState cells are
\* written through React's update queue and read by nobody but the render.

ConnectionError == "WebSocket connection error"
FailedToConnect == "Failed to connect"
FailedToReconnect == "Failed to reconnect after maxReconnectAttempts attempts"

hookState ==
    [isConnected |-> isConnected, error |-> error, reconnectAttempts |-> reconnectAttempts]

\* the queued updates: setIsConnected(b), setError(e), setReconnectAttempts(n),
\* and setReconnectAttempts(updater) of onclose (g, kept for the record, is
\* the number of failures since the last open event, this one included)
SetIsConnected(b) == [cell |-> "isConnected", b |-> b, e |-> NoError, n |-> 0]
SetError(e) == [cell |-> "error", b |-> FALSE, e |-> e, n |-> 0]
SetReconnectAttempts(n) == [cell |-> "reconnectAttempts", b |-> FALSE, e |-> NoError, n |-> n]
ReconnectUpdater(g) == [cell |-> "updater", b |-> FALSE, e |-> NoError, n |-> g]

\* the state an update makes of the state st (the updater returns prev + 1)
Reduce(st, u) ==
    CASE u.cell = "isConnected" -> [st EXCEPT !.isConnected = u.b]
      [] u.cell = "error" -> [st EXCEPT !.error = u.e]
      [] u.cell = "reconnectAttempts" -> [st EXCEPT !.reconnectAttempts = u.n]
      [] OTHER -> [st EXCEPT !.reconnectAttempts = @ + 1]

\* setState(value) called by a handler: with nothing queued, React computes the
\* state at once and drops the update when it is the rendered state
Dispatch(q, u) ==
    IF q = <<>> /\ Reduce(hookState, u) = hookState THEN q ELSE Append(q, u)

RECURSIVE DispatchAll(_, _)
DispatchAll(q, us) ==
    IF us = <<>> THEN q ELSE DispatchAll(Dispatch(q, Head(us)), Tail(us))

RECURSIVE pow(_, _)
pow(b, e) == IF e = 0 THEN 1 ELSE b * pow(b, e - 1)

BackoffDelayUncapped(attempts) == reconnectDelay * pow(2, attempts - 1)

BackoffDelay(attempts) == Min(reconnectDelay * pow(2, attempts - 1), MaxBackoffMs)

NewTimer ==
    CHOOSE t \in TimerIds : ~timers[t].pending /\ \A u \in TimerIds : ~timers[u].pending => t <= u

NewSocket(socks) ==
    CHOOSE s \in SocketIds : socks[s] = "unused" /\ \A u \in SocketIds : socks[u] = "unused" => s <= u

\* the updater onclose hands to setReconnectAttempts, run on prev; q is the
\* queue without it, owedIn is owed before it
reconnectUpdater(prev, q, owedIn) ==
    IF prev + 1 <= maxReconnectAttempts
    THEN /\ \E t \in TimerIds : ~timers[t].pending
         /\ timers' = [timers EXCEPT ![NewTimer] =
                          [pending |-> TRUE, delay |-> BackoffDelay(prev + 1)]]
         /\ reconnectTimeoutRef' = NewTimer
         /\ updates' = q
         /\ owed' = FALSE
    ELSE /\ updates' = Append(q, SetError(FailedToReconnect))
         /\ owed' = owedIn
         /\ UNCHANGED <<timers, reconnectTimeoutRef>>

\* connect(); throws: new WebSocket(url) throws
connect(throws) ==
    IF wsRef # NoSocket /\ sockets[wsRef] = "open"
    THEN UNCHANGED <<wsRef, sockets, updates, owed>>
    ELSE LET cleaned == IF wsRef # NoSocket
                        THEN [sockets EXCEPT ![wsRef] = "closingAbnormal"]
                        ELSE sockets
         IN IF throws
            THEN /\ wsRef' = NoSocket
                 /\ sockets' = cleaned
                 /\ updates' = Dispatch(updates, SetError(FailedToConnect))
                 /\ Len(updates') <= MaxUpdates
                 /\ owed' = (failures < maxReconnectAttempts)
            ELSE /\ \E s \in SocketIds : cleaned[s] = "unused"
                 /\ sockets' = [cleaned EXCEPT ![NewSocket(cleaned)] = "connecting"]
                 /\ wsRef' = NewSocket(cleaned)
                 /\ owed' = FALSE
                 /\ UNCHANGED updates

\* the component calls connect(): the auto-connect effect, or a consumer
WsConnect ==
    /\ userCalls < MaxUserCalls
    /\ userCalls' = userCalls + 1
    /\ disconnected' = FALSE
    /\ \E throws \in BOOLEAN : connect(throws)
    /\ UNCHANGED <<isConnected, error, reconnectAttempts, reconnectTimeoutRef, timers, failures>>
    /\ UNCHANGED <<posVars, dispatchVars, sideVars>>

\* a setTimeout(connect, delay) of onclose fires
TimerFires(t) ==
    /\ timers[t].pending
    /\ timers' = [timers EXCEPT ![t] = NoTimeout]
    /\ reconnectTimeoutRef' = IF reconnectTimeoutRef = t THEN StaleTimer ELSE reconnectTimeoutRef
    /\ \E throws \in BOOLEAN : connect(throws)
    /\ UNCHANGED <<isConnected, error, reconnectAttempts, failures, disconnected, userCalls>>
    /\ UNCHANGED <<posVars, dispatchVars, sideVars>>

onopenUpdatesKeepAttempts == <<SetIsConnected(TRUE), SetError(NoError)>>

onopenUpdates == <<SetIsConnected(TRUE), SetError(NoError), SetReconnectAttempts(0)>>

\* ws.onopen
OnOpen(s) ==
    /\ sockets[s] = "connecting"
    /\ sockets' = [sockets EXCEPT ![s] = "open"]
    /\ updates' = DispatchAll(updates, onopenUpdates)
    /\ Len(updates') <= MaxUpdates
    /\ failures' = 0
    /\ owed' = FALSE
    /\ UNCHANGED <<isConnected, error, reconnectAttempts, wsRef, reconnectTimeoutRef, timers,
                   disconnected, userCalls>>
    /\ UNCHANGED <<posVars, dispatchVars, sideVars>>

\* ws.onerror
OnError(s) ==
    /\ sockets[s] \in {"connecting", "open", "closingAbnormal"}
    /\ updates' = Dispatch(updates, SetError(ConnectionError))
    /\ Len(updates') <= MaxUpdates
    /\ UNCHANGED <<isConnected, error, reconnectAttempts, wsRef, reconnectTimeoutRef, sockets,
                   timers, failures, disconnected, owed, userCalls>>
    /\ UNCHANGED <<posVars, dispatchVars, sideVars>>

\* ws.onclose with event.code 1000: the server closed normally, or the close
\* handshake of close(1000, "Client disconnect") has ended
OnCloseNormal(s) ==
    /\ sockets[s] \in {"open", "closing1000"}
    /\ sockets' = [sockets EXCEPT ![s] = "unused"]
    /\ wsRef' = NoSocket
    /\ updates' = Dispatch(updates, SetIsConnected(FALSE))
    /\ Len(updates') <= MaxUpdates
    /\ UNCHANGED <<isConnected, error, reconnectAttempts, reconnectTimeoutRef, timers,
                   failures, disconnected, owed, userCalls>>
    /\ UNCHANGED <<posVars, dispatchVars, sideVars>>

\* ws.onclose with another code: the connection failed or was lost (1006), the
\* server went away (1001), or close() was called before the socket had opened
OnCloseAbnormal(s) ==
    /\ sockets[s] \in {"connecting", "open", "closingAbnormal"}
    /\ failures <= maxReconnectAttempts
    /\ failures' = failures + 1
    /\ sockets' = [sockets EXCEPT ![s] = "unused"]
    /\ wsRef' = NoSocket
    /\ LET q == Dispatch(updates, SetIsConnected(FALSE))
           owedIn == failures + 1 <= maxReconnectAttempts
       IN IF q = <<>>
          THEN reconnectUpdater(reconnectAttempts,
                                <<SetReconnectAttempts(reconnectAttempts + 1)>>, owedIn)
          ELSE /\ updates' = Append(q, ReconnectUpdater(failures + 1))
               /\ owed' = owedIn
               /\ UNCHANGED <<timers, reconnectTimeoutRef>>
    /\ Len(updates') <= MaxUpdates
    /\ UNCHANGED <<isConnected, error, reconnectAttempts, disconnected, userCalls>>
    /\ UNCHANGED <<posVars, dispatchVars, sideVars>>

\* the state the next render computes from the queue
RECURSIVE Settle(_, _)
Settle(st, q) == IF q = <<>> THEN st ELSE Settle(Reduce(st, Head(q)), Tail(q))

\* the render processes the next queued update
ApplyUpdate ==
    /\ updates # <<>>
    /\ LET u == Head(updates)
       IN IF u.cell = "updater"
          THEN /\ reconnectAttempts' = reconnectAttempts + 1
               /\ reconnectUpdater(reconnectAttempts, Tail(updates), owed)
               /\ UNCHANGED <<isConnected, error>>
          ELSE /\ isConnected' = Reduce(hookState, u).isConnected
               /\ error' = Reduce(hookState, u).error
               /\ reconnectAttempts' = Reduce(hookState, u).reconnectAttempts
               /\ updates' = Tail(updates)
               /\ UNCHANGED <<timers, reconnectTimeoutRef, owed>>
    /\ UNCHANGED <<wsRef, sockets, failures, disconnected, userCalls>>
    /\ UNCHANGED <<posVars, dispatchVars, sideVars>>

\* disconnect(): clearReconnectTimeout(), close(1000, "Client disconnect")
WsDisconnect ==
    /\ userCalls < MaxUserCalls
    /\ userCalls' = userCalls + 1
    /\ disconnected' = TRUE
    /\ owed' = FALSE
    /\ timers' = IF reconnectTimeoutRef \in TimerIds
                 THEN [timers EXCEPT ![reconnectTimeoutRef] = NoTimeout]
                 ELSE timers
    /\ reconnectTimeoutRef' = NoTimer
    /\ sockets' = IF wsRef # NoSocket
                  THEN [sockets EXCEPT ![wsRef] =
                           IF @ = "open" THEN "closing1000" ELSE "closingAbnormal"]
                  ELSE sockets
    /\ wsRef' = NoSocket
    /\ updates' = Dispatch(updates, SetIsConnected(FALSE))
    /\ Len(updates') <= MaxUpdates
    /\ UNCHANGED <<isConnected, error, reconnectAttempts, failures>>
    /\ UNCHANGED <<posVars, dispatchVars, sideVars>>

WsNext ==
    \/ WsConnect
    \/ WsDisconnect
    \/ \E t \in TimerIds : TimerFires(t)
    \/ \E s \in SocketIds : OnOpen(s)
    \/ \E s \in SocketIds : OnError(s)
    \/ \E s \in SocketIds : OnCloseNormal(s)
    \/ \E s \in SocketIds : OnCloseAbnormal(s)
    \/ ApplyUpdate

SpecWs == Init /\ [][WsNext]_vars

\* ---------------------------------------------- useWebSocket, subscriptions
InSeq(q, h) == \E i \in DOMAIN q : q[i] = h

\* Set.prototype.add: a member keeps its place, a new one goes last
SetAdd(q, h) == IF InSeq(q, h) THEN q ELSE Append(q, h)

\* Set.prototype.delete
SetDelete(q, h) == SelectSeq(q, LAMBDA x : x # h)

\* subscribe(eventType, handler)
Subscribe(ty, h) ==
    /\ eventHandlersRef' = [eventHandlersRef EXCEPT ![ty] = SetAdd(@, h)]
    /\ UNCHANGED <<allHandlersRef, invoked, posVars, wsVars, sideVars>>

\* the function subscribe returned
Unsubscribe(ty, h) ==
    /\ eventHandlersRef' = [eventHandlersRef EXCEPT ![ty] = SetDelete(@, h)]
    /\ UNCHANGED <<allHandlersRef, invoked, posVars, wsVars, sideVars>>

\* subscribeAll(handler)
SubscribeAll(h) ==
    /\ allHandlersRef' = SetAdd(allHandlersRef, h)
    /\ UNCHANGED <<eventHandlersRef, invoked, posVars, wsVars, sideVars>>

\* the function subscribeAll returned
UnsubscribeAll(h) ==
    /\ allHandlersRef' = SetDelete(allHandlersRef, h)
    /\ UNCHANGED <<eventHandlersRef, invoked, posVars, wsVars, sideVars>>

\* the calls of the two forEach loops inside the try block: they go through
\* the handlers in order and end with the first that throws
RECURSIVE forEachUntilThrow(_, _)
forEachUntilThrow(q, throwers) ==
    IF q = <<>> THEN <<>>
    ELSE IF Head(q) \in throwers THEN <<Head(q)>>
    ELSE <<Head(q)>> \o forEachUntilThrow(Tail(q), throwers)

\* ws.onmessage for a message of type ty; throwers are the handlers that
\* throw when called with it
OnMessage(ty, throwers) ==
    /\ invoked' = forEachUntilThrow(eventHandlersRef[ty] \o allHandlersRef, throwers)
    /\ UNCHANGED <<eventHandlersRef, allHandlersRef, posVars, wsVars, sideVars>>

\* ws.onmessage for data that JSON.parse rejects
OnMalformedMessage ==
    /\ invoked' = <<>>
    /\ UNCHANGED <<eventHandlersRef, allHandlersRef, posVars, wsVars, sideVars>>

DispatchNext ==
    \/ \E ty \in EventTypes, h \in Handlers : Subscribe(ty, h)
    \/ \E ty \in EventTypes, h \in Handlers : Unsubscribe(ty, h)
    \/ \E h \in Handlers : SubscribeAll(h)
    \/ \E h \in Handlers : UnsubscribeAll(h)
    \/ \E ty \in EventTypes, throwers \in SUBSET Handlers : OnMessage(ty, throwers)
    \/ OnMalformedMessage

SpecDispatch == Init /\ [][DispatchNext]_vars

\* ------------------------------------------------------------------ shifts
\* The ledger service (routers/shifts, routers/transactions) is not among the
\* sources; its operations are written from section 4.4 of the specification.
\* The terminal's side is App, OpenShiftModal and CloseShiftModal.

OpenShiftsOf(ls, staff) ==
    {id \in ShiftIds : ls[id].status = "open" /\ ls[id].staffId = staff}

NewShiftId(ls) ==
    CHOOSE id \in ShiftIds : ls[id].status = "none"
                              /\ \A other \in ShiftIds : ls[other].status = "none" => id <= other

\* open(staffId, openingFloat): fails if staffId has an open shift; openingFloat >= 0
ledgerOpen(ls, staff, float) ==
    IF OpenShiftsOf(ls, staff) # {} \/ float < 0 THEN ls
    ELSE [ls EXCEPT ![NewShiftId(ls)] =
             [status |-> "open", staffId |-> staff, openingFloat |-> float, cashTenderTotal |-> 0]]

\* recordCashTender(amount): fails (logged, non-fatal) against a shift that is not open
recordCashTenderUnchecked(ls, id, amount) ==
    IF id \in ShiftIds /\ ls[id].status # "none"
    THEN [ls EXCEPT ![id].cashTenderTotal = @ + amount] ELSE ls

recordCashTender(ls, id, amount) ==
    IF id \in ShiftIds /\ ls[id].status = "open"
    THEN [ls EXCEPT ![id].cashTenderTotal = @ + amount] ELSE ls

\* close(actualCash): requires actualCash >= 0; computes expectedCash and variance
ledgerClose(ls, id, actualCash) ==
    IF id \in ShiftIds /\ ls[id].status = "open" /\ actualCash >= 0
    THEN [ls EXCEPT ![id] =
             [status |-> "closed", staffId |-> @.staffId, openingFloat |-> @.openingFloat,
              cashTenderTotal |-> @.cashTenderTotal, actualCash |-> actualCash,
              expectedCash |-> @.openingFloat + @.cashTenderTotal,
              variance |-> actualCash - (@.openingFloat + @.cashTenderTotal)]]
    ELSE ls

\* GET shifts/current?cashier_id=
ledgerCurrent(ls, staff) ==
    IF OpenShiftsOf(ls, staff) = {} THEN NoShift ELSE CHOOSE id \in OpenShiftsOf(ls, staff) : TRUE

DecimalDigits == <<"0", "1", "2", "3", "4", "5", "6", "7", "8", "9">>
digitValue(c) == (CHOOSE i \in DOMAIN DecimalDigits : DecimalDigits[i] = c) - 1

RECURSIVE parseDigits(_, _)
parseDigits(text, acc) ==
    IF text = <<>> THEN acc ELSE parseDigits(Tail(text), 10 * acc + digitValue(Head(text)))

\* parseFloat of the value of a number input
parseFloat(text) ==
    IF text = <<>> THEN [nan |-> TRUE, val |-> 0]
    ELSE IF Head(text) = "-" THEN [nan |-> FALSE, val |-> 0 - parseDigits(Tail(text), 0)]
    ELSE [nan |-> FALSE, val |-> parseDigits(text, 0)]

validAmountAnySign(x) == ~x.nan

\* the negation of Number.isNaN(x) || x < 0
validAmount(x) == ~(x.nan \/ x.val < 0)

onOpenedAlways(ok, shift, cur) == shift

\* OpenShiftModal after the fetch: onOpened(shift) unless !res.ok
onOpenResponse(ok, shift, cur) == IF ok THEN shift ELSE cur

NoDialogInView ==
    /\ ~shiftView.isPaymentModalOpen
    /\ ~shiftView.isOpenShiftModalOpen
    /\ ~shiftView.isCloseShiftModalOpen

\* what the shift actions leave alone
shiftFrame == <<modalVars, totalGross, posts, reactVars, now, histVars, pollVars, transportVars,
                idleVars, saleVars>>

\* a queued update is rendered
ShiftRender ==
    /\ shiftView # ShiftSnapshot(currentShift, isPaymentModalOpen,
                                 isOpenShiftModalOpen, isCloseShiftModalOpen)
    /\ shiftView' = ShiftSnapshot(currentShift, isPaymentModalOpen,
                                  isOpenShiftModalOpen, isCloseShiftModalOpen)
    /\ UNCHANGED <<shifts, sales, currentShift, isPaymentModalOpen, isOpenShiftModalOpen,
                   isCloseShiftModalOpen, fetchReq, openReq, closeReq, txReq, shiftFrame>>

\* handleLogout, then LoginScreen's onLogin: the fetchCurrentShift effect runs
Relogin ==
    /\ NoDialogInView
    /\ fetchReq = NoRequest
    /\ currentShift' = NoShift
    /\ shiftView' = [shiftView EXCEPT !.currentShift = NoShift]
    /\ fetchReq' = [phase |-> "sent"]
    /\ UNCHANGED <<shifts, sales, isPaymentModalOpen, isOpenShiftModalOpen,
                   isCloseShiftModalOpen, openReq, closeReq, txReq, shiftFrame>>

\* fetchCurrentShift after the await, with the answer of GET shifts/current
fetchCurrentShift(outcome) ==
    /\ fetchReq.phase = "sent"
    /\ currentShift' = CASE outcome = "ok" -> ledgerCurrent(shifts, cashierId)
                          [] outcome = "not ok" -> currentShift
                          [] OTHER -> NoShift
    /\ fetchReq' = NoRequest
    /\ UNCHANGED <<shifts, sales, isPaymentModalOpen, isOpenShiftModalOpen,
                   isCloseShiftModalOpen, shiftView, openReq, closeReq, txReq, shiftFrame>>

\* the Open Shift button of the top bar
ClickOpenShift ==
    /\ NoDialogInView
    /\ shiftView.currentShift = NoShift
    /\ isOpenShiftModalOpen' = TRUE
    /\ shiftView' = [shiftView EXCEPT !.isOpenShiftModalOpen = TRUE]
    /\ UNCHANGED <<shifts, sales, currentShift, isPaymentModalOpen, isCloseShiftModalOpen,
                   fetchReq, openReq, closeReq, txReq, shiftFrame>>

DismissOpenShiftModal ==
    /\ shiftView.isOpenShiftModalOpen
    /\ isOpenShiftModalOpen' = FALSE
    /\ shiftView' = [shiftView EXCEPT !.isOpenShiftModalOpen = FALSE]
    /\ UNCHANGED <<shifts, sales, currentShift, isPaymentModalOpen, isCloseShiftModalOpen,
                   fetchReq, openReq, closeReq, txReq, shiftFrame>>

\* OpenShiftModal.handleOpen up to the fetch
handleOpen(text) ==
    /\ shiftView.isOpenShiftModalOpen
    /\ openReq = NoRequest
    /\ openReq' = IF validAmount(parseFloat(text))
                  THEN [phase |-> "sent", float |-> parseFloat(text).val]
                  ELSE openReq
    /\ UNCHANGED <<shifts, sales, currentShift, isPaymentModalOpen, isOpenShiftModalOpen,
                   isCloseShiftModalOpen, shiftView, fetchReq, closeReq, txReq, shiftFrame>>

\* POST shifts/open at the service
OpenServed ==
    /\ openReq.phase = "sent"
    /\ OpenShiftsOf(shifts, cashierId) = {} => \E id \in ShiftIds : shifts[id].status = "none"
    /\ shifts' = ledgerOpen(shifts, cashierId, openReq.float)
    /\ openReq' = [phase |-> "answered", ok |-> shifts' # shifts,
                   shift |-> IF shifts' # shifts THEN NewShiftId(shifts) ELSE NoShift]
    /\ UNCHANGED <<sales, currentShift, isPaymentModalOpen, isOpenShiftModalOpen,
                   isCloseShiftModalOpen, shiftView, fetchReq, closeReq, txReq, shiftFrame>>

\* OpenShiftModal.handleOpen after the fetch, with App's onOpened and onClose
OpenAnswered ==
    /\ openReq.phase = "answered"
    /\ currentShift' = onOpenResponse(openReq.ok, openReq.shift, currentShift)
    /\ isOpenShiftModalOpen' = IF openReq.ok THEN FALSE ELSE isOpenShiftModalOpen
    /\ openReq' = NoRequest
    /\ UNCHANGED <<shifts, sales, isPaymentModalOpen, isCloseShiftModalOpen, shiftView,
                   fetchReq, closeReq, txReq, shiftFrame>>

\* the Close Shift button, after AdminPinModal has verified the PIN
RequestCloseShift ==
    /\ NoDialogInView
    /\ shiftView.currentShift # NoShift
    /\ isCloseShiftModalOpen' = TRUE
    /\ UNCHANGED <<shifts, sales, currentShift, isPaymentModalOpen, isOpenShiftModalOpen,
                   shiftView, fetchReq, openReq, closeReq, txReq, shiftFrame>>

DismissCloseShiftModal ==
    /\ shiftView.isCloseShiftModalOpen
    /\ isCloseShiftModalOpen' = FALSE
    /\ shiftView' = [shiftView EXCEPT !.isCloseShiftModalOpen = FALSE]
    /\ UNCHANGED <<shifts, sales, currentShift, isPaymentModalOpen, isOpenShiftModalOpen,
                   fetchReq, openReq, closeReq, txReq, shiftFrame>>

\* CloseShiftModal.handleCloseShift up to the fetch; shiftId is currentShift?.id
handleCloseShift(text) ==
    /\ shiftView.isCloseShiftModalOpen
    /\ shiftView.currentShift # NoShift
    /\ closeReq = NoRequest
    /\ closeReq' = IF validAmount(parseFloat(text))
                   THEN [phase |-> "sent", shiftId |-> shiftView.currentShift,
                         closing_actual |-> parseFloat(text).val]
                   ELSE closeReq
    /\ UNCHANGED <<shifts, sales, currentShift, isPaymentModalOpen, isOpenShiftModalOpen,
                   isCloseShiftModalOpen, shiftView, fetchReq, openReq, txReq, shiftFrame>>

\* POST shifts/<id>/close at the service
CloseServed ==
    /\ closeReq.phase = "sent"
    /\ shifts' = ledgerClose(shifts, closeReq.shiftId, closeReq.closing_actual)
    /\ closeReq' = [phase |-> "answered", ok |-> shifts' # shifts]
    /\ UNCHANGED <<sales, currentShift, isPaymentModalOpen, isOpenShiftModalOpen,
                   isCloseShiftModalOpen, shiftView, fetchReq, openReq, txReq, shiftFrame>>

\* CloseShiftModal.handleCloseShift after the fetch: onClosed(); onClose() unless !res.ok
CloseAnswered ==
    /\ closeReq.phase = "answered"
    /\ currentShift' = IF closeReq.ok THEN NoShift ELSE currentShift
    /\ isCloseShiftModalOpen' = IF closeReq.ok THEN FALSE ELSE isCloseShiftModalOpen
    /\ closeReq' = NoRequest
    /\ UNCHANGED <<shifts, sales, isPaymentModalOpen, isOpenShiftModalOpen, shiftView,
                   fetchReq, openReq, txReq, shiftFrame>>

\* the test of requireShiftForPayment on the render's currentShift
requireShiftForPayment == shiftView.currentShift # NoShift

\* handleCashPayment / handleMpesaPayment / handleCreditPayment
handlePayment ==
    /\ NoDialogInView
    /\ requireShiftForPayment
    /\ isPaymentModalOpen' = TRUE
    /\ shiftView' = [shiftView EXCEPT !.isPaymentModalOpen = TRUE]
    /\ UNCHANGED <<shifts, sales, currentShift, isOpenShiftModalOpen, isCloseShiftModalOpen,
                   fetchReq, openReq, closeReq, txReq, shiftFrame>>

\* Complete Sale: handleFinalizeSale, then handleCompleteSale up to the fetch
\* with shift_id: currentShift?.id ?? null; cash is the sum of the cash lines
ShiftCompleteSale(cash) ==
    /\ shiftView.isPaymentModalOpen
    /\ txReq = NoRequest
    /\ Len(sales) < MaxSales
    /\ txReq' = [phase |-> "sent", shift_id |-> shiftView.currentShift, cash |-> cash]
    /\ isPaymentModalOpen' = FALSE
    /\ shiftView' = [shiftView EXCEPT !.isPaymentModalOpen = FALSE]
    /\ UNCHANGED <<shifts, sales, currentShift, isOpenShiftModalOpen, isCloseShiftModalOpen,
                   fetchReq, openReq, closeReq, shiftFrame>>

\* the payment dialog is dismissed
ShiftCancelCheckout ==
    /\ shiftView.isPaymentModalOpen
    /\ isPaymentModalOpen' = FALSE
    /\ shiftView' = [shiftView EXCEPT !.isPaymentModalOpen = FALSE]
    /\ UNCHANGED <<shifts, sales, currentShift, isOpenShiftModalOpen, isCloseShiftModalOpen,
                   fetchReq, openReq, closeReq, txReq, shiftFrame>>

\* POST transactions at the service: the sale's cash goes to its shift's ledger
TransactionServed ==
    /\ txReq.phase = "sent"
    /\ shifts' = recordCashTender(shifts, txReq.shift_id, txReq.cash)
    /\ sales' = IF txReq.shift_id \in ShiftIds /\ shifts[txReq.shift_id].status = "open"
                THEN Append(sales, [shift_id |-> txReq.shift_id, cash |-> txReq.cash])
                ELSE sales
    /\ txReq' = [phase |-> "answered", shift_id |-> txReq.shift_id, cash |-> txReq.cash,
                 recorded |-> shifts' # shifts]
    /\ UNCHANGED <<currentShift, isPaymentModalOpen, isOpenShiftModalOpen,
                   isCloseShiftModalOpen, shiftView, fetchReq, openReq, closeReq, shiftFrame>>

\* handleCompleteSale after the fetch: clearCart(); setIsPaymentModalOpen(false)
TransactionAnswered ==
    /\ txReq.phase = "answered"
    /\ txReq' = NoRequest
    /\ isPaymentModalOpen' = FALSE
    /\ UNCHANGED <<shifts, sales, currentShift, isOpenShiftModalOpen, isCloseShiftModalOpen,
                   shiftView, fetchReq, openReq, closeReq, shiftFrame>>

ShiftNext ==
    \/ ShiftRender
    \/ Relogin
    \/ \E outcome \in {"ok", "not ok", "error"} : fetchCurrentShift(outcome)
    \/ ClickOpenShift
    \/ DismissOpenShiftModal
    \/ \E text \in FloatTexts : handleOpen(text)
    \/ OpenServed
    \/ OpenAnswered
    \/ RequestCloseShift
    \/ DismissCloseShiftModal
    \/ \E text \in ActualTexts : handleCloseShift(text)
    \/ CloseServed
    \/ CloseAnswered
    \/ handlePayment
    \/ \E cash \in CashTenders : ShiftCompleteSale(cash)
    \/ ShiftCancelCheckout
    \/ TransactionServed
    \/ TransactionAnswered

SpecShift == Init /\ [][ShiftNext]_vars

\* ------------------------------------------------- useIdleTimeout
\* src/unnamed/part_016.  Time is idleClock, in ms.  A ref is modelled by the
\* due time of the pending timer it holds, NoDue when it holds null or a timer
\* that has fired.  idle.view is the render the returned reset / pause / resume
\* and the activity listener were made by (the enabled and isPaused they
\* closed over); idle.dirty says a state update waits for its render;
\* idle.inline says the caller passes a new onIdle function on every render,
\* as the App does, and not one stable function, as the tests do.
\* idle.didReset is history: the body of reset() ran in this step.
CountdownMs == 1000
ActivityThrottleMs == 1000

clearTimers(h) ==
    [h EXCEPT !.timeoutRef = NoDue, !.warningTimeoutRef = NoDue, !.countdownRef = NoDue]


\* reset() of the render whose closure is cl, called at time t
reset(h, cl, t) ==
    IF ~cl.enabled \/ cl.isPaused
    THEN h
    ELSE [clearTimers(h) EXCEPT
             !.isWarning = FALSE,
             !.secondsRemaining = 0,
             !.dirty = h.dirty \/ h.isWarning \/ h.secondsRemaining # 0,
             !.lastActivityRef = t,
             !.warningTimeoutRef = t + Max(0, h.timeoutMs - h.warningMs),
             !.timeoutRef = t + h.timeoutMs,
             !.didReset = TRUE]

\* the first run of the effect: the listeners are added and reset() starts the timers
effect(h, t) ==
    IF ~h.enabled THEN h ELSE reset(h, h.view, t)

\* a render of the hook and the effects that follow it, at time t.  The effect
\* runs again when its dependencies [enabled, reset, clearTimers] changed:
\* reset is a new function when enabled, isPaused, onIdle or onWarning is
render(h, t) ==
    LET rendered == [h EXCEPT !.dirty = FALSE,
                              !.view = [enabled |-> h.enabled, isPaused |-> h.isPaused]]
        cleaned == IF h.view.enabled THEN clearTimers(rendered) ELSE rendered
    IN  IF h.enabled # h.view.enabled \/ h.isPaused # h.view.isPaused \/ h.inline
        THEN effect(cleaned, t)
        ELSE rendered

\* the timers that are due
Due(d) == d # NoDue /\ d <= idleClock
Pending(h) == {h.timeoutRef, h.warningTimeoutRef, h.countdownRef} \ {NoDue}

\* the history after a step that was called from outside (an event, a call of
\* the returned functions, a render of the caller) and led from idle to h
logCall(h, resumed) ==
    [idleLog EXCEPT
        !.calls = @ + 1,
        !.warnings = IF h.didReset THEN 0 ELSE @,
        !.startAt = IF h.didReset THEN idleClock
                    ELSE IF ~h.enabled \/ h.isPaused THEN NoDue ELSE @,
        !.warned = IF h.didReset \/ ~h.enabled \/ h.isPaused THEN FALSE ELSE @,
        !.idled = IF h.didReset \/ ~h.enabled \/ h.isPaused THEN FALSE ELSE @,
        !.resumedAt = IF resumed /\ h.didReset THEN idleClock
                      ELSE IF h.didReset \/ ~h.enabled \/ h.isPaused THEN NoDue ELSE @]
idleFrame == <<modalVars, appVars, reactVars, now, histVars, pollVars, transportVars, shiftVars,
               saleVars>>
Fresh == [idle EXCEPT !.didReset = FALSE]
CanCall == idle.mounted /\ ~idle.dirty /\ idleLog.calls < MaxIdleCalls

\* the component is mounted: the first render and its effect
IdleMount(T, W, inl, en) ==
    /\ ~idle.mounted
    /\ LET h == [NotMounted EXCEPT !.mounted = TRUE, !.timeoutMs = T, !.warningMs = W,
                                   !.inline = inl, !.enabled = en,
                                   !.lastActivityRef = idleClock,
                                   !.view = [enabled |-> en, isPaused |-> FALSE]]
           h2 == effect(h, idleClock)
       IN  /\ idle' = h2
           /\ idleLog' = [logCall(h2, FALSE) EXCEPT !.calls = 0]
    /\ UNCHANGED <<idleClock, idleFrame>>

\* time passes, up to the next timer that is due; a pending render comes first
IdleTimePasses ==
    /\ idle.mounted
    /\ ~idle.dirty
    /\ \A d \in Pending(idle) : d > idleClock
    /\ idleClock < MaxIdleSteps * IdleStepMs
    /\ LET nexts == Pending(idle) \cup {idleClock + IdleStepMs}
       IN  idleClock' = CHOOSE x \in nexts : \A y \in nexts : x <= y
    /\ UNCHANGED <<idle, idleLog, idleFrame>>

\* the callback of warningTimeoutRef's timeout
WarningFires ==
    /\ Due(idle.warningTimeoutRef)
    /\ idle' = [idle EXCEPT !.warningTimeoutRef = NoDue,
                            !.isWarning = TRUE,
                            !.secondsRemaining = (idle.warningMs + 999) \div 1000,  \* Math.ceil(warningMs / 1000)
                            !.dirty = TRUE,
                            !.countdownRef = idleClock + CountdownMs,
                            !.didReset = FALSE]
    /\ idleLog' = [idleLog EXCEPT !.onWarningAt = idleClock, !.warnings = @ + 1, !.warned = TRUE]
    /\ UNCHANGED <<idleClock, idleFrame>>

\* one tick of countdownRef's interval: the updater of setSecondsRemaining
CountdownTick ==
    /\ Due(idle.countdownRef)
    /\ LET prev == idle.secondsRemaining
           next == [Fresh EXCEPT !.countdownRef = @ + CountdownMs]
       IN  idle' = IF prev <= 1
                   THEN [clearTimers(next) EXCEPT !.secondsRemaining = 0,
                                                  !.dirty = next.dirty \/ prev # 0]
                   ELSE [next EXCEPT !.secondsRemaining = prev - 1, !.dirty = TRUE]
    /\ UNCHANGED <<idleClock, idleLog, idleFrame>>

\* the callback of timeoutRef's timeout
IdleFires ==
    /\ Due(idle.timeoutRef)
    /\ idle' = [clearTimers(Fresh) EXCEPT !.isWarning = FALSE,
                                          !.dirty = idle.dirty \/ idle.isWarning]
    /\ idleLog' = [idleLog EXCEPT !.onIdleAt = idleClock, !.idled = TRUE]
    /\ UNCHANGED <<idleClock, idleFrame>>

\* React renders the queued updates and runs the effects
IdleRender ==
    /\ idle.mounted
    /\ idle.dirty
    /\ idle' = render(Fresh, idleClock)
    /\ idleLog' = [idleLog EXCEPT !.warnings = IF idle'.didReset THEN 0 ELSE @]
    /\ UNCHANGED <<idleClock, idleFrame>>

\* a mousedown, keydown, ... on the window: handleActivity of the last effect
handleActivity ==
    /\ CanCall
    /\ idle.view.enabled
    /\ idle' = IF idleClock - idle.lastActivityRef > ActivityThrottleMs
               THEN reset(Fresh, idle.view, idleClock)
               ELSE Fresh
    /\ idleLog' = logCall(idle', FALSE)
    /\ UNCHANGED <<idleClock, idleFrame>>

\* the caller calls the reset() it was given (Stay logged in)
IdleReset ==
    /\ CanCall
    /\ idle' = reset(Fresh, idle.view, idleClock)
    /\ idleLog' = logCall(idle', FALSE)
    /\ UNCHANGED <<idleClock, idleFrame>>

\* pause(), and the render of its update
pause ==
    /\ CanCall
    /\ idle' = render(clearTimers([Fresh EXCEPT !.isPaused = TRUE]), idleClock)
    /\ idleLog' = logCall(idle', FALSE)
    /\ UNCHANGED <<idleClock, idleFrame>>

\* resume(), and the render of its update
resume ==
    /\ CanCall
    /\ idle' = render(reset([Fresh EXCEPT !.isPaused = FALSE], idle.view, idleClock), idleClock)
    /\ idleLog' = logCall(idle', idle.isPaused)
    /\ UNCHANGED <<idleClock, idleFrame>>

\* the caller renders, with the same or another value of enabled
HostRender(en) ==
    /\ CanCall
    /\ idle' = render([Fresh EXCEPT !.enabled = en], idleClock)
    /\ idleLog' = IF en = idle.enabled
                  THEN [idleLog EXCEPT !.calls = @ + 1,
                                       !.warnings = IF idle'.didReset THEN 0 ELSE @]
                  ELSE logCall(idle', FALSE)
    /\ UNCHANGED <<idleClock, idleFrame>>

IdleNext ==
    \* timeoutMs and warningMs; the App passes 300000 and 30000
    \/ \E T \in {2000, 3000}, W \in {1000, 1500, 3000}, inl \in BOOLEAN, en \in BOOLEAN :
           IdleMount(T, W, inl, en)
    \/ IdleTimePasses
    \/ WarningFires
    \/ CountdownTick
    \/ IdleFires
    \/ IdleRender
    \/ handleActivity
    \/ IdleReset
    \/ pause
    \/ resume
    \/ \E en \in BOOLEAN : HostRender(en)

SpecIdle == Init /\ [][IdleNext]_vars

\* ------------------------------------- App and PaymentModal, sale by sale
\* The second PaymentModal definition (lines 575-1002) and the handlers App
\* gives it, over successive checkouts: what each checkout starts with, and
\* the POST transactions requests it issues.  The WebSocket handlers of the
\* modal are those of Spec and are left out here.
saleFrame == <<sub, lastCompleteAt, lateEvents, pollVars, transportVars, shiftVars, idleVars>>

SaleTick ==
    /\ now < StartNow + MaxTicks * TickMs
    /\ now - lastCompleteTapRef < COMPLETE_DEBOUNCE_MS
    /\ now' = now + TickMs
    /\ UNCHANGED <<modalVars, appVars, view, reqStatus, phase, issued, saleFrame>>

\* a later task renders the queued updates
SaleRender ==
    /\ view # Snapshot(isPaymentModalOpen, payments, checkoutRequestId, totalGross)
    /\ view' = Snapshot(isPaymentModalOpen, payments, checkoutRequestId, totalGross)
    /\ UNCHANGED <<modalVars, appVars, now, reqStatus, phase, issued, saleFrame>>

\* the cart store changes while the cart screen is shown
SaleCartChange(t) ==
    /\ ~view.open
    /\ t # totalGross
    /\ totalGross' = t
    /\ view' = [view EXCEPT !.totalGross = t]
    /\ UNCHANGED <<modalVars, isPaymentModalOpen, posts, now, reqStatus, phase, issued, saleFrame>>

\* handleCashPayment / handleMpesaPayment / handleCreditPayment of App:
\* setIsPaymentModalOpen(true).  The modal's effect on open sets the active
\* tab and the cash input only.
SaleOpenPaymentModal ==
    /\ ~view.open
    /\ isPaymentModalOpen' = TRUE
    /\ phase' = "open"
    /\ view' = [view EXCEPT !.open = TRUE]
    /\ issued' = <<>>
    /\ UNCHANGED <<modalVars, totalGross, posts, now, reqStatus, saleFrame>>

SaleAddCashPayment(amount) ==
    /\ view.open
    /\ amount > 0
    /\ Len(payments) < MaxPayments
    /\ LET actualPayment == Min(amount, remainingBalance(view.payments, view.totalGross))
           line == Line("CASH", actualPayment, NoCode, "cash", NoKey)
       IN  /\ payments' = Append(payments, line)
           /\ view' = [view EXCEPT !.payments = Append(view.payments, line)]
    /\ UNCHANGED <<checkoutRequestId, lastCompleteTapRef, stkFetch, appVars, now, reqStatus,
                   phase, issued, saleFrame>>

\* handleMpesaPayment of the modal, up to its await
SaleMpesaPayment ==
    /\ view.open
    /\ view.checkoutRequestId = NoReq
    /\ remainingBalance(view.payments, view.totalGross) > 0
    /\ stkFetch = "idle"
    /\ stkFetch' = "inflight"
    /\ UNCHANGED <<payments, checkoutRequestId, lastCompleteTapRef, appVars, view, now,
                   reqStatus, phase, issued, saleFrame>>

\* handleStkSent of App: POST transactions with payment_status PENDING
handleStkSent(id) == Append(issued, "PENDING")

\* handleMpesaPayment after the await, with a CheckoutRequestID:
\* setCheckoutRequestId(id); onStkSent(id)
SaleStkSent(id) ==
    /\ stkFetch = "inflight"
    /\ reqStatus[id] = "none"
    /\ stkFetch' = "idle"
    /\ checkoutRequestId' = id
    /\ reqStatus' = [reqStatus EXCEPT ![id] = "awaiting"]
    /\ issued' = handleStkSent(id)
    /\ UNCHANGED <<payments, lastCompleteTapRef, appVars, view, now, phase, saleFrame>>

\* handleMpesaPayment after the await: 503, not ok, no CheckoutRequestID, or the fetch threw
SaleStkRejected ==
    /\ stkFetch = "inflight"
    /\ stkFetch' = "idle"
    /\ UNCHANGED <<payments, checkoutRequestId, lastCompleteTapRef, appVars, view, now,
                   reqStatus, phase, issued, saleFrame>>

\* handleMpesaVerifySuccess of App: clearCart(); setIsPaymentModalOpen(false)
handleMpesaVerifySuccess ==
    /\ totalGross' = 0
    /\ isPaymentModalOpen' = FALSE
    /\ UNCHANGED <<payments, checkoutRequestId>>

\* the Check Status button: handleCheckStatus, handleVerifyStatus of App, and
\* the gateway says the push was paid
SaleVerifySuccess ==
    /\ view.open
    /\ view.checkoutRequestId # NoReq
    /\ handleMpesaVerifySuccess
    /\ phase' = IF phase = "open" THEN "closedByParent" ELSE phase
    /\ view' = [view EXCEPT !.totalGross = 0]
    /\ UNCHANGED <<lastCompleteTapRef, stkFetch, posts, now, reqStatus, issued, saleFrame>>

\* Dialog onOpenChange(false): resetAndClose
SaleCancelCheckout ==
    /\ view.open
    /\ payments' = <<>>
    /\ checkoutRequestId' = NoReq
    /\ isPaymentModalOpen' = FALSE
    /\ reqStatus' = Cancelled(checkoutRequestId)
    /\ view' = Snapshot(FALSE, <<>>, NoReq, view.totalGross)
    /\ phase' = "cancelled"
    /\ UNCHANGED <<lastCompleteTapRef, stkFetch, totalGross, posts, now, issued, saleFrame>>

\* handleFinalizeSale: onCompleteSale("COMPLETED", { payments }), that is
\* handleCompleteSale of App up to its POST transactions, then resetAndClose
SaleFinalize ==
    /\ view.open
    /\ isFullyPaid(view.payments, view.totalGross)
    /\ withCompleteDebounce
    /\ Len(posts) < MaxPosts
    /\ lastCompleteTapRef' = now
    /\ posts' = Append(posts, Digest(view.payments))
    /\ issued' = Append(issued, "COMPLETED")
    /\ payments' = <<>>
    /\ checkoutRequestId' = NoReq
    /\ isPaymentModalOpen' = FALSE
    /\ reqStatus' = Cancelled(checkoutRequestId)
    /\ view' = Snapshot(FALSE, <<>>, NoReq, view.totalGross)
    /\ phase' = "finalized"
    /\ UNCHANGED <<stkFetch, totalGross, now, saleFrame>>

\* handleCompleteSale after its POST: ok (clearCart, setIsPaymentModalOpen(false)) or not
SalePostAnswered(i, ok) ==
    /\ i \in 1..Len(posts)
    /\ posts' = RemoveOne(posts, i)
    /\ IF ok
       THEN /\ totalGross' = 0
            /\ isPaymentModalOpen' = FALSE
            /\ phase' = IF phase = "open" THEN "closedByParent" ELSE phase
            /\ view' = [view EXCEPT !.totalGross = 0]
       ELSE UNCHANGED <<totalGross, isPaymentModalOpen, phase, view>>
    /\ UNCHANGED <<modalVars, now, reqStatus, issued, saleFrame>>

SaleNext ==
    \/ SaleTick
    \/ SaleRender
    \/ \E t \in CartTotals : SaleCartChange(t)
    \/ SaleOpenPaymentModal
    \/ \E a \in CashInputs : SaleAddCashPayment(a)
    \/ SaleMpesaPayment
    \/ \E id \in ReqIds : SaleStkSent(id)
    \/ SaleStkRejected
    \/ SaleVerifySuccess
    \/ SaleCancelCheckout
    \/ SaleFinalize
    \/ \E i \in 1..MaxPosts, ok \in BOOLEAN : SalePostAnswered(i, ok)

SpecSale == Init /\ [][SaleNext]_vars

\* ------------------------------------------------------------ claims
\* the step appends a tender line
LineAdded ==
    /\ Len(payments') = Len(payments) + 1
    /\ SubSeq(payments', 1, Len(payments)) = payments
\* the line such a step appends
AddedLine == payments'[Len(payments')]

\* C1: of the payment events delivered to one open checkout that share an
\* idempotency key (trans_id, checkout_request_id), at most one appends a tender
\* line: the session never holds two lines produced by events of one key.
C1_OneLinePerKey ==
    \A i, j \in 1..Len(payments) :
        (i # j /\ payments[i].key # NoKey) => payments[i].key # payments[j].key

\* C2: finalize is idempotent under the 200 ms debounce: onCompleteSale is never
\* invoked for a checkout that is already finalized, nor within
\* COMPLETE_DEBOUNCE_MS of the invocation before it, however often and however
\* fast handleFinalizeSale is triggered.
C2_FinalizeOnce ==
    [][FinalizeCompleted =>
          /\ phase # "finalized"
          /\ now - lastCompleteAt >= COMPLETE_DEBOUNCE_MS]_vars

\* a settled checkout is shown and handleFinalizeSale can be triggered within
\* the debounce window of the onCompleteSale before it
C2_Witness ==
    /\ view.open
    /\ isFullyPaid(view.payments, view.totalGross)
    /\ lastCompleteAt >= StartNow
    /\ now - lastCompleteAt < COMPLETE_DEBOUNCE_MS

\* C3: a payment event delivered after the checkout was finalized or cancelled
\* appends no tender line and changes no session state.
C3_TerminalNotResurrected ==
    [][(phase \in Terminal /\ phase' = phase /\ lateEvents' # lateEvents) =>
          UNCHANGED <<payments, checkoutRequestId, lastCompleteTapRef, stkFetch,
                      isPaymentModalOpen, totalGross, posts, view, sub>>]_vars

\* a payment event has been delivered to a finalized or cancelled checkout
C3_Witness == phase \in Terminal /\ lateEvents = 1

\* C4: a push-confirmed event (STK callback with status success) appends a
\* tender line only if its checkout_request_id is the current pending request
\* and that request is still awaiting: not already matched by an earlier
\* confirmation, failed or cancelled.
C4_CreditOnlyWhileAwaiting ==
    [][(LineAdded /\ AddedLine.source = "stk") =>
          /\ AddedLine.key \in ReqIds
          /\ reqStatus[AddedLine.key] = "awaiting"
          /\ checkoutRequestId = AddedLine.key]_vars

\* C5: when the POST transactions of handleCompleteSale fails, the checkout it
\* was made for is still shown, not finalized or cancelled, and holds the
\* tender lines that were sent.
C5_FailedPostKeepsSettled ==
    [][\A i \in 1..MaxPosts :
          PostTransactionFailed(i) =>
              /\ isPaymentModalOpen'
              /\ phase' \notin Terminal
              /\ Len(payments') = posts[i].lines]_vars

\* C6: the tender-line list handleFinalizeSale passes to onCompleteSale is the
\* session's tender-line list at that moment: no line credited before is
\* missing from it.
C6_EmittedListIsSessionList ==
    [][FinalizeCompleted => onCompleteSaleArg = payments]_vars

\* C7: the amount of the line handleAddCashPayment appends never exceeds the
\* session's remaining balance at the time the line is added.
C7_CashCappedAtRemaining ==
    [][(\E a \in CashInputs : handleAddCashPayment(a)) =>
          AddedLine.amount <= remainingBalance(payments, totalGross)]_vars

\* C8: the remaining balance max(0, totalGross - paid) is never negative and
\* never increases when a tender line is added.
C8_RemainingNeverIncreases ==
    [][(LineAdded /\ totalGross' = totalGross) =>
          /\ remainingBalance(payments', totalGross) >= 0
          /\ remainingBalance(payments', totalGross)
                 <= remainingBalance(payments, totalGross)]_vars

\* the tender lines shown to the cashier cover the target amount up to 0.01
Settled == 100 * remainingBalance(view.payments, totalGross) <= Scale

C10_CodesUnique ==
    \A i, j \in 1..Len(payments) :
        (i # j /\ payments[i].code # NoCode) => payments[i].code # payments[j].code

\* C11: the target amount of a checkout is immutable: between the opening of
\* the payment modal and its finalize or cancel no step changes totalGross.
C11_TargetImmutable ==
    [][(phase = "open" /\ phase' = "open") => totalGross' = totalGross]_vars

\* the rule of the specification for an inbound payment of this amount,
\* on the session's tender lines and target amount
MatchRule(amount) ==
    \/ Abs(amount - remainingBalance(payments, totalGross)) < Scale
    \/ (amount > 0 /\ amount <= totalGross)

\* C12: an inbound-payment-received event delivered to an open checkout, its
\* trans_id on no tender line yet, is credited if and only if
\* |amount - remainingBalance| < 1 or 0 < amount <= targetAmount.
C12_AutoMatchRule ==
    (phase = "open" /\ sub.subscribed) =>
        \A c \in Codes, a \in C2bAmounts :
            ~HasCode(payments, c) =>
                (autoMatch(c, a, sub.payments, sub.totalGross) <=> MatchRule(a))

\* C13: no payment event with a non-positive amount causes a tender line to
\* be appended.
C13_MalformedAmountRejected ==
    [][(LineAdded /\ AddedLine.source = "c2b") => AddedLine.amount > 0]_vars

\* C14: a payment event that is neither credited nor a duplicate is recorded:
\* an event delivered when no checkout is active (the last one was finalized
\* or cancelled) leaves a record in the state of the application.
C14_OrphanRecorded ==
    [][(phase \in Terminal /\ phase' = phase /\ lateEvents' # lateEvents) =>
          <<modalVars, appVars, reactVars>>' # <<modalVars, appVars, reactVars>>]_vars

\* C15: the status-poll timer of a push request runs only while the request
\* is awaiting and its checkout is open, and only then does the timer start a
\* status query or a query's success run handleMpesaVerifySuccess.
C15_PollOnlyWhileAwaiting ==
    [][/\ pollIntervalRef' # NoReq =>
              (reqStatus'[pollIntervalRef'] = "awaiting" /\ phase' = "open")
       /\ PollTimerFires =>
              (reqStatus[pollIntervalRef] = "awaiting" /\ phase = "open")
       /\ PollVerifySuccess =>
              (reqStatus[pollQuery] = "awaiting" /\ phase = "open")]_vars

\* onclose runs its updater within the handler: nothing was queued
EagerClose ==
    /\ \E s \in SocketIds : OnCloseAbnormal(s)
    /\ Dispatch(updates, SetIsConnected(FALSE)) = <<>>

\* C16: the updater of the k-th abnormal close since the last open event
\* schedules connect with delay min(reconnectDelay * 2^(k-1), 30000) when
\* k <= maxReconnectAttempts; for a larger k it schedules nothing and sets the
\* error "Failed to reconnect after ... attempts".
C16_BackoffSchedule ==
    [][\A k \in 1..(maxReconnectAttempts + 1) :
          (\/ EagerClose /\ failures' = k
           \/ ApplyUpdate /\ Head(updates) = ReconnectUpdater(k))
          => IF k <= maxReconnectAttempts
             THEN \E t \in TimerIds :
                     /\ ~timers[t].pending
                     /\ timers'[t] = [pending |-> TRUE,
                                      delay |-> Min(reconnectDelay * 2^(k - 1), MaxBackoffMs)]
                     /\ reconnectTimeoutRef' = t
             ELSE /\ timers' = timers
                  /\ updates' # <<>>
                  /\ updates'[Len(updates')] = SetError(FailedToReconnect)]_vars

C16_Witness ==
    /\ failures > maxReconnectAttempts
    /\ reconnectAttempts > maxReconnectAttempts
    /\ error = FailedToReconnect

\* C17: after disconnect(), until connect() is called again, no reconnect timer
\* is pending and no new connection attempt is made.
C17_DisconnectStopsReconnect ==
    [][disconnected' =>
          /\ \A t \in TimerIds : ~timers'[t].pending
          /\ disconnected =>
                \A s \in SocketIds : sockets'[s] = "connecting" => sockets[s] = "connecting"]_vars

\* C18: a failed connection attempt with attempts remaining does not leave
\* the hook at rest with neither a reconnect scheduled nor a connection made.
C18_FailureSchedulesReconnect ==
    ~(owed /\ updates = <<>>)

Rendered == Settle(hookState, updates)

C20_AllHandlersInvoked ==
    [][\A ty \in EventTypes, throwers \in SUBSET Handlers :
          OnMessage(ty, throwers) => invoked' = eventHandlersRef[ty] \o allHandlersRef]_vars

C22_CheckoutNeedsShift ==
    [][/\ (isPaymentModalOpen' /\ ~isPaymentModalOpen) => currentShift # NoShift
       /\ \A cash \in CashTenders :
              ShiftCompleteSale(cash) =>
                  /\ currentShift # NoShift
                  /\ txReq'.shift_id # NoShift
                  /\ shifts[txReq'.shift_id].status = "open"]_vars

\* C23: a closed ledger never changes again: it is not reopened and no cash
\* tender is recorded against it.
C23_ClosedIsTerminal ==
    [][\A id \in ShiftIds : shifts[id].status = "closed" => shifts'[id] = shifts[id]]_vars

C23_Witness ==
    /\ txReq.phase = "answered"
    /\ txReq.cash > 0
    /\ ~txReq.recorded
    /\ txReq.shift_id # NoShift
    /\ shifts[txReq.shift_id].status = "closed"

RECURSIVE CashOfSales(_, _)
CashOfSales(ss, id) ==
    IF ss = <<>> THEN 0
    ELSE (IF Head(ss).shift_id = id THEN Head(ss).cash ELSE 0) + CashOfSales(Tail(ss), id)

Started == idle.mounted /\ idleLog.startAt # NoDue

\* C25: with the hook enabled and no activity or reset, onWarning is invoked once,
\* timeoutMs - warningMs after the last reset (at once when warningMs exceeds
\* timeoutMs), and onIdle is invoked timeoutMs after the last reset, after
\* onWarning; neither is invoked earlier than its full delay after a reset.
C25_WarningThenIdle ==
    /\ [][WarningFires =>
            /\ idleClock = idle.lastActivityRef + Max(0, idle.timeoutMs - idle.warningMs)
            /\ idleLog.warnings = 0]_vars
    /\ [][IdleFires =>
            /\ idleClock = idle.lastActivityRef + idle.timeoutMs
            /\ idleLog.warnings = 1]_vars
    /\ [](Started /\ idleClock > idleLog.startAt + Max(0, idle.timeoutMs - idle.warningMs)
            => idleLog.onWarningAt = idleLog.startAt + Max(0, idle.timeoutMs - idle.warningMs))
    /\ [](Started /\ idleClock > idleLog.startAt + idle.timeoutMs
            => idleLog.onIdleAt = idleLog.startAt + idle.timeoutMs)

\* C26: while the hook is disabled or paused neither onWarning nor onIdle is
\* invoked; after a resume() the full timeout runs again, and onIdle is invoked
\* timeoutMs after it when nothing is called in between.
C26_QuietWhileOff ==
    /\ [][WarningFires \/ IdleFires => idle.enabled /\ ~idle.isPaused]_vars
    /\ [](idle.mounted /\ idleLog.resumedAt # NoDue
            /\ idleClock > idleLog.resumedAt + idle.timeoutMs
            => idleLog.onIdleAt = idleLog.resumedAt + idle.timeoutMs)

\* C30: once the warning period is entered and nothing is called from outside,
\* the idle timeout stays pending until onIdle has been invoked; in particular
\* a tick of the countdown never cancels it.
C30_IdleStaysPending ==
    /\ [][CountdownTick /\ idle.timeoutRef # NoDue => idle'.timeoutRef # NoDue]_vars
    /\ [](Started /\ idleLog.warned /\ ~idleLog.idled
            => idle.timeoutRef = idleLog.startAt + idle.timeoutMs)

\* the sockets that are connecting or open
LiveSockets == {s \in SocketIds : sockets[s] \in {"connecting", "open"}}
\* the reconnects onclose has queued and React has not run yet
QueuedReconnects(q) == Cardinality({i \in 1..Len(q) : q[i].cell = "updater"})

\* C27: one useWebSocket has at most one socket that is connecting or open, and
\* the close event of a socket that is not the current one leaves wsRef alone
\* and schedules no reconnect, in every interleaving.
C27_OneLiveSocket ==
    /\ [](Cardinality(LiveSockets) <= 1)
    /\ [][\A s \in SocketIds :
            (OnCloseNormal(s) \/ OnCloseAbnormal(s)) /\ wsRef # NoSocket /\ wsRef # s
            => /\ wsRef' = wsRef
               /\ timers' = timers
               /\ QueuedReconnects(updates') = QueuedReconnects(updates)]_vars

\* C28: when the payment modal opens, its tender list is empty and it holds no
\* push request of the checkout before, however that checkout ended.
C28_CheckoutStartsClean ==
    [][SaleOpenPaymentModal => payments' = <<>> /\ checkoutRequestId' = NoReq]_vars

\* C29: one checkout, from the opening of the payment modal on, issues at most
\* one POST transactions request.
C29_OnePostPerCheckout == Len(issued) <= 1

====
